---------------------------- MODULE Spec2Model ----------------------------
(***************************************************************************)
(* A model of CPUSimulator (src/cpu_simulator.py): the register file, the  *)
(* operand resolver (_get_value / _set_value), the tokenizer and opcode    *)
(* chain of run(), and the fetch/execute loop with its step budget.        *)
(*                                                                         *)
(* Instruction texts are sequences of one-character strings, so that       *)
(* strip(), replace(',', ' '), split() and the operand regex are computed  *)
(* as the code computes them.  Python lists are 1-indexed sequences here;  *)
(* PyIndex gives Python's 0-based (and negative) indexing.                 *)
(*                                                                         *)
(* Further specifications model two CPUSimulator objects made from the     *)
(* same arguments (SpecTwoRuns), ChronoLexIndex (SpecIndex) and            *)
(* LoyaltyHotspot (SpecHotspot).  Each specification holds the variables   *)
(* of the objects it does not model at fixed values.                       *)
(***************************************************************************)
EXTENDS Integers, Sequences, FiniteSets, TLC

VARIABLES
    registers,       \* self.registers
    instructions,    \* self.instructions: a sequence of instruction texts
    max_steps,       \* self.max_steps
    ip,              \* self.ip
    cf,              \* self.cf
    steps_executed,  \* self.steps_executed
    status,          \* "running" | "done" (run returned) | "error" (run raised)
    err,             \* which exception run() raised, "none" if none
    calls            \* the _get_value/_set_value calls of the last loop iteration

\* two CPUSimulator objects made by one caller from the same arguments
VARIABLES
    heap,            \* the list objects: identity -> contents
    sims,            \* the simulator objects made so far: run -> its fields
    args,            \* the caller's instructions and max_steps
    initial          \* the contents of the caller's register list at the start

\* a ChronoLexIndex object (src/chrono_lexicographical_index.py)
VARIABLES
    time_sorted_list,  \* self._time_sorted_list: (timestamp, word) pairs
    prefix_trie,       \* self._prefix_trie: path from the root -> node dict
    added              \* the add_word calls made so far, in call order

\* a LoyaltyHotspot object (src/loyalty_hotspot.py)
VARIABLES
    parent,               \* self._parent
    loyalties,            \* self._loyalties
    scores_in_component,  \* self._scores_in_component: root -> sorted scores
    groups                \* the friend groups: people joined by friendships

\* the caller's last call, if it was a query or raised an exception: its
\* name, arguments, the value returned and the exception raised
VARIABLE returned

cpuVars == <<registers, instructions, max_steps, ip, cf, steps_executed,
             status, err, calls>>
simVars == <<heap, sims, args, initial>>
indexVars == <<time_sorted_list, prefix_trie, added>>
hotspotVars == <<parent, loyalties, scores_in_component, groups>>
vars == <<cpuVars, simVars, indexVars, hotspotVars, returned>>

\* the variables of everything but the one simulator object
beyondCpu == <<simVars, indexVars, hotspotVars, returned>>

---------------------------------------------------------------------------
(* Bounds of the model *)

NumRegs == 2
MaxProg == 2
MaxBudget == 2

InitialValues == {-1, 0, 1}

---------------------------------------------------------------------------
(* Python list indexing and string helpers *)

WS == {" ", "\t"}
Digits == {"0", "1", "2", "3", "4", "5", "6", "7", "8", "9"}

DigitVal(c) ==
    CASE c = "0" -> 0 [] c = "1" -> 1 [] c = "2" -> 2 [] c = "3" -> 3
      [] c = "4" -> 4 [] c = "5" -> 5 [] c = "6" -> 6 [] c = "7" -> 7
      [] c = "8" -> 8 [] c = "9" -> 9

\* lst[i] of a Python list: 0-based, a negative i counts from the end.
PyIndex(lst, i) == IF i >= 0 THEN lst[i + 1] ELSE lst[Len(lst) + i + 1]

\* lst.insert(i, v) in place of lst[i] = v: the list grows by one
PyStoreInsert(lst, i, v) ==
    LET k == IF i >= 0 THEN i ELSE Len(lst) + i
    IN  SubSeq(lst, 1, k) \o <<v>> \o SubSeq(lst, k + 1, Len(lst))

\* lst[i] = v of a Python list.
PyStore(lst, i, v) ==
    IF i >= 0 THEN [lst EXCEPT ![i + 1] = v]
    ELSE [lst EXCEPT ![Len(lst) + i + 1] = v]

RECURSIVE LStrip(_)
LStrip(s) ==
    IF s = <<>> THEN s
    ELSE IF Head(s) \in WS THEN LStrip(Tail(s)) ELSE s

RECURSIVE RStrip(_)
RStrip(s) ==
    IF s = <<>> THEN s
    ELSE IF s[Len(s)] \in WS THEN RStrip(SubSeq(s, 1, Len(s) - 1)) ELSE s

\* str.strip()
Strip(s) == RStrip(LStrip(s))

\* str.replace(',', ' ')
ReplaceComma(s) == [i \in DOMAIN s |-> IF s[i] = "," THEN " " ELSE s[i]]

\* the length of the leading run of non-whitespace characters
RECURSIVE WordLen(_)
WordLen(s) ==
    IF s = <<>> \/ Head(s) \in WS THEN 0 ELSE 1 + WordLen(Tail(s))

\* str.split(): the maximal runs of non-whitespace characters, in order
RECURSIVE Split(_)
Split(s) ==
    LET t == LStrip(s)
    IN  IF t = <<>> THEN <<>>
        ELSE LET n == WordLen(t)
             IN  <<SubSeq(t, 1, n)>> \o Split(SubSeq(t, n + 1, Len(t)))

---------------------------------------------------------------------------
(* The operand regex ([VRP])(\d+), applied with re.match *)

\* the length of the leading run of decimal digits
RECURSIVE DigitRun(_)
DigitRun(s) ==
    IF s = <<>> \/ Head(s) \notin Digits THEN 0 ELSE 1 + DigitRun(Tail(s))

\* operand_regex.match(operand_str) is not None: the pattern is anchored at
\* the start of the token only, so characters after the digits are ignored.
RegexMatches(tok) ==
    /\ Len(tok) >= 2
    /\ tok[1] \in {"V", "R", "P"}
    /\ tok[2] \in Digits

\* int() of a string of decimal digits
RECURSIVE IntOf(_)
IntOf(ds) ==
    IF ds = <<>> THEN 0
    ELSE 10 * IntOf(SubSeq(ds, 1, Len(ds) - 1)) + DigitVal(ds[Len(ds)])

\* match.groups(): the mode letter and int(num), num the greedy digit run
RegexMode(tok) == tok[1]
RegexNum(tok) == IntOf(SubSeq(tok, 2, 1 + DigitRun(Tail(tok))))

---------------------------------------------------------------------------
(* The operand resolver *)

NoError == "none"

InBounds(regs, i) == 0 <= i /\ i < Len(regs)

\* _get_value whose pointer branch checks only the upper bound of the
\* address: a negative address then indexes the list from its end
GetValueNoLowerBound(regs, tok) ==
    IF ~RegexMatches(tok) THEN [err |-> "InvalidOperandFormat", val |-> 0]
    ELSE LET mode == RegexMode(tok)
             num  == RegexNum(tok)
         IN  IF mode = "V" THEN [err |-> NoError, val |-> num]
             ELSE IF mode = "R" THEN
                 IF ~InBounds(regs, num)
                 THEN [err |-> "RegisterOutOfRange", val |-> 0]
                 ELSE [err |-> NoError, val |-> PyIndex(regs, num)]
             ELSE
                 IF ~InBounds(regs, num)
                 THEN [err |-> "RegisterOutOfRange", val |-> 0]
                 ELSE LET pointer_address == PyIndex(regs, num)
                      IN  IF ~(pointer_address < Len(regs))
                          THEN [err |-> "RegisterOutOfRange", val |-> 0]
                          ELSE [err |-> NoError,
                                val |-> PyIndex(regs, pointer_address)]

\* _get_value: [err, val]
GetValue(regs, tok) ==
    IF ~RegexMatches(tok) THEN [err |-> "InvalidOperandFormat", val |-> 0]
    ELSE LET mode == RegexMode(tok)
             num  == RegexNum(tok)
         IN  IF mode = "V" THEN [err |-> NoError, val |-> num]
             ELSE IF mode = "R" THEN
                 IF ~InBounds(regs, num)
                 THEN [err |-> "RegisterOutOfRange", val |-> 0]
                 ELSE [err |-> NoError, val |-> PyIndex(regs, num)]
             ELSE
                 IF ~InBounds(regs, num)
                 THEN [err |-> "RegisterOutOfRange", val |-> 0]
                 ELSE LET pointer_address == PyIndex(regs, num)
                      IN  IF ~InBounds(regs, pointer_address)
                          THEN [err |-> "RegisterOutOfRange", val |-> 0]
                          ELSE [err |-> NoError,
                                val |-> PyIndex(regs, pointer_address)]

\* _set_value whose pointer branch writes the register that holds the
\* address instead of the register at that address
SetValueOneHop(regs, tok, value) ==
    IF ~RegexMatches(tok) THEN [err |-> "InvalidOperandFormat", registers |-> regs]
    ELSE LET mode == RegexMode(tok)
             num  == RegexNum(tok)
         IN  IF mode = "V" THEN [err |-> "InvalidWriteTarget", registers |-> regs]
             ELSE IF ~InBounds(regs, num)
                  THEN [err |-> "RegisterOutOfRange", registers |-> regs]
             ELSE IF mode = "P" /\ ~InBounds(regs, PyIndex(regs, num))
                  THEN [err |-> "RegisterOutOfRange", registers |-> regs]
             ELSE [err |-> NoError, registers |-> PyStore(regs, num, value)]

\* _set_value without the V-mode branch: a literal destination matches no
\* branch and the call returns having written nothing
SetValueNoLiteralCheck(regs, tok, value) ==
    IF ~RegexMatches(tok) THEN [err |-> "InvalidOperandFormat", registers |-> regs]
    ELSE LET mode == RegexMode(tok)
             num  == RegexNum(tok)
         IN  IF mode = "V" THEN [err |-> NoError, registers |-> regs]
             ELSE IF ~InBounds(regs, num)
                  THEN [err |-> "RegisterOutOfRange", registers |-> regs]
             ELSE IF mode = "R"
                  THEN [err |-> NoError, registers |-> PyStore(regs, num, value)]
             ELSE IF ~InBounds(regs, PyIndex(regs, num))
                  THEN [err |-> "RegisterOutOfRange", registers |-> regs]
             ELSE [err |-> NoError,
                   registers |-> PyStore(regs, PyIndex(regs, num), value)]

\* a _set_value that stores through a pointer operand at the register the
\* operand names before it checks the address that register holds
SetValueStoreFirst(regs, tok, value) ==
    IF ~RegexMatches(tok) THEN [err |-> "InvalidOperandFormat", registers |-> regs]
    ELSE LET mode == RegexMode(tok)
             num  == RegexNum(tok)
         IN  IF mode = "V" THEN [err |-> "InvalidWriteTarget", registers |-> regs]
             ELSE IF ~InBounds(regs, num)
                  THEN [err |-> "RegisterOutOfRange", registers |-> regs]
                  ELSE IF mode = "R"
                  THEN [err |-> NoError, registers |-> PyStore(regs, num, value)]
                  ELSE LET pointer_address == PyIndex(regs, num)
                       IN  IF ~InBounds(regs, pointer_address)
                           THEN [err |-> "RegisterOutOfRange",
                                 registers |-> PyStore(regs, num, value)]
                           ELSE [err |-> NoError,
                                 registers |-> PyStore(regs, pointer_address, value)]

\* _set_value: [err, registers]
SetValue(regs, tok, value) ==
    IF ~RegexMatches(tok) THEN [err |-> "InvalidOperandFormat", registers |-> regs]
    ELSE LET mode == RegexMode(tok)
             num  == RegexNum(tok)
         IN  IF mode = "V" THEN [err |-> "InvalidWriteTarget", registers |-> regs]
             ELSE IF mode = "R" THEN
                 IF ~InBounds(regs, num)
                 THEN [err |-> "RegisterOutOfRange", registers |-> regs]
                 ELSE [err |-> NoError, registers |-> PyStore(regs, num, value)]
             ELSE
                 IF ~InBounds(regs, num)
                 THEN [err |-> "RegisterOutOfRange", registers |-> regs]
                 ELSE LET pointer_address == PyIndex(regs, num)
                      IN  IF ~InBounds(regs, pointer_address)
                          THEN [err |-> "RegisterOutOfRange", registers |-> regs]
                          ELSE [err |-> NoError,
                                registers |-> PyStore(regs, pointer_address, value)]

\* one entry of calls: a call of _get_value (value: what it returned) or of
\* _set_value (value: what it was given), and the error it raised
Call(fn, tok, value, e) == [fn |-> fn, operand |-> tok, value |-> value, err |-> e]


---------------------------------------------------------------------------
(* The opcode chain of run(): one operator per branch.  Each returns what  *)
(* the branch does to the simulator: the exception raised ("none" if       *)
(* none), the registers and flag after it, whether it jumped and where to, *)
(* and the resolver calls it made, in Python's evaluation order.           *)

Outcome(e, regs, flag, jumped, target, cs) ==
    [err |-> e, registers |-> regs, cf |-> flag, jumped |-> jumped,
     target |-> target, calls |-> cs]

OpMOV == <<"M", "O", "V">>
OpADD == <<"A", "D", "D">>
OpMUL == <<"M", "U", "L">>
OpCMP == <<"C", "M", "P">>
OpJMP == <<"J", "M", "P">>
OpJEQ == <<"J", "E", "Q">>
OpJGT == <<"J", "G", "T">>
OpJLT == <<"J", "L", "T">>
OpHALT == <<"H", "A", "L", "T">>

KnownOpcodes == {OpMOV, OpADD, OpMUL, OpCMP, OpJMP, OpJEQ, OpJGT, OpJLT, OpHALT}

\* dest, src = operands; self._set_value(dest, self._get_value(src))
ExecMov(regs, flag, operands) ==
    IF Len(operands) # 2 THEN Outcome("UnpackError", regs, flag, FALSE, 0, <<>>)
    ELSE LET dest == operands[1]
             src  == operands[2]
             g    == GetValue(regs, src)
             c1   == <<Call("get", src, g.val, g.err)>>
         IN  IF g.err # NoError THEN Outcome(g.err, regs, flag, FALSE, 0, c1)
             ELSE LET s == SetValue(regs, dest, g.val)
                  IN  Outcome(s.err, s.registers, flag, FALSE, 0,
                              c1 \o <<Call("set", dest, g.val, s.err)>>)

\* an ADD branch that also sets the flag, to the sign of the sum
ExecAddSetsFlag(regs, flag, operands) ==
    IF Len(operands) # 2 THEN Outcome("UnpackError", regs, flag, FALSE, 0, <<>>)
    ELSE LET dest == operands[1]
             src  == operands[2]
             gd   == GetValue(regs, dest)
             c1   == <<Call("get", dest, gd.val, gd.err)>>
         IN  IF gd.err # NoError THEN Outcome(gd.err, regs, flag, FALSE, 0, c1)
             ELSE LET gs == GetValue(regs, src)
                      c2 == c1 \o <<Call("get", src, gs.val, gs.err)>>
                  IN  IF gs.err # NoError
                      THEN Outcome(gs.err, regs, flag, FALSE, 0, c2)
                      ELSE LET v == gd.val + gs.val
                               s == SetValue(regs, dest, v)
                           IN  Outcome(s.err, s.registers,
                                       IF s.err # NoError THEN flag
                                       ELSE IF v < 0 THEN -1
                                       ELSE IF v > 0 THEN 1 ELSE 0,
                                       FALSE, 0,
                                       c2 \o <<Call("set", dest, v, s.err)>>)

\* dest, src = operands;
\* self._set_value(dest, self._get_value(dest) + self._get_value(src)):
\* both reads, left to right, then the write
ExecAdd(regs, flag, operands) ==
    IF Len(operands) # 2 THEN Outcome("UnpackError", regs, flag, FALSE, 0, <<>>)
    ELSE LET dest == operands[1]
             src  == operands[2]
             gd   == GetValue(regs, dest)
             c1   == <<Call("get", dest, gd.val, gd.err)>>
         IN  IF gd.err # NoError THEN Outcome(gd.err, regs, flag, FALSE, 0, c1)
             ELSE LET gs == GetValue(regs, src)
                      c2 == c1 \o <<Call("get", src, gs.val, gs.err)>>
                  IN  IF gs.err # NoError
                      THEN Outcome(gs.err, regs, flag, FALSE, 0, c2)
                      ELSE LET v == gd.val + gs.val
                               s == SetValue(regs, dest, v)
                           IN  Outcome(s.err, s.registers, flag, FALSE, 0,
                                       c2 \o <<Call("set", dest, v, s.err)>>)

\* a MUL branch that multiplies the source by itself and never reads dest
ExecMulSourceTwice(regs, flag, operands) ==
    IF Len(operands) # 2 THEN Outcome("UnpackError", regs, flag, FALSE, 0, <<>>)
    ELSE LET dest == operands[1]
             src  == operands[2]
             gs   == GetValue(regs, src)
             c1   == <<Call("get", src, gs.val, gs.err)>>
         IN  IF gs.err # NoError THEN Outcome(gs.err, regs, flag, FALSE, 0, c1)
             ELSE LET v == gs.val * gs.val
                      s == SetValue(regs, dest, v)
                  IN  Outcome(s.err, s.registers, flag, FALSE, 0,
                              c1 \o <<Call("set", dest, v, s.err)>>)

\* dest, src = operands;
\* self._set_value(dest, self._get_value(dest) * self._get_value(src)):
\* both reads, left to right, then the write
ExecMul(regs, flag, operands) ==
    IF Len(operands) # 2 THEN Outcome("UnpackError", regs, flag, FALSE, 0, <<>>)
    ELSE LET dest == operands[1]
             src  == operands[2]
             gd   == GetValue(regs, dest)
             c1   == <<Call("get", dest, gd.val, gd.err)>>
         IN  IF gd.err # NoError THEN Outcome(gd.err, regs, flag, FALSE, 0, c1)
             ELSE LET gs == GetValue(regs, src)
                      c2 == c1 \o <<Call("get", src, gs.val, gs.err)>>
                  IN  IF gs.err # NoError
                      THEN Outcome(gs.err, regs, flag, FALSE, 0, c2)
                      ELSE LET v == gd.val * gs.val
                               s == SetValue(regs, dest, v)
                           IN  Outcome(s.err, s.registers, flag, FALSE, 0,
                                       c2 \o <<Call("set", dest, v, s.err)>>)

\* a CMP branch with the two flag values exchanged
ExecCmpSwapped(regs, flag, operands) ==
    IF Len(operands) # 2 THEN Outcome("UnpackError", regs, flag, FALSE, 0, <<>>)
    ELSE LET op1 == operands[1]
             op2 == operands[2]
             g1  == GetValue(regs, op1)
             c1  == <<Call("get", op1, g1.val, g1.err)>>
         IN  IF g1.err # NoError THEN Outcome(g1.err, regs, flag, FALSE, 0, c1)
             ELSE LET g2 == GetValue(regs, op2)
                      c2 == c1 \o <<Call("get", op2, g2.val, g2.err)>>
                  IN  IF g2.err # NoError
                      THEN Outcome(g2.err, regs, flag, FALSE, 0, c2)
                      ELSE Outcome(NoError, regs,
                                   IF g1.val < g2.val THEN 1
                                   ELSE IF g1.val > g2.val THEN -1 ELSE 0,
                                   FALSE, 0, c2)

\* op1, op2 = operands; val1, val2 = ...; self.cf = -1 | 1 | 0
ExecCmp(regs, flag, operands) ==
    IF Len(operands) # 2 THEN Outcome("UnpackError", regs, flag, FALSE, 0, <<>>)
    ELSE LET op1 == operands[1]
             op2 == operands[2]
             g1  == GetValue(regs, op1)
             c1  == <<Call("get", op1, g1.val, g1.err)>>
         IN  IF g1.err # NoError THEN Outcome(g1.err, regs, flag, FALSE, 0, c1)
             ELSE LET g2 == GetValue(regs, op2)
                      c2 == c1 \o <<Call("get", op2, g2.val, g2.err)>>
                  IN  IF g2.err # NoError
                      THEN Outcome(g2.err, regs, flag, FALSE, 0, c2)
                      ELSE Outcome(NoError, regs,
                                   IF g1.val < g2.val THEN -1
                                   ELSE IF g1.val > g2.val THEN 1 ELSE 0,
                                   FALSE, 0, c2)

\* self.ip = self._get_value(operands[0]); jumped = True
TakeJump(regs, flag, operands) ==
    IF Len(operands) = 0 THEN Outcome("IndexError", regs, flag, FALSE, 0, <<>>)
    ELSE LET g == GetValue(regs, operands[1])
             c == <<Call("get", operands[1], g.val, g.err)>>
         IN  IF g.err # NoError THEN Outcome(g.err, regs, flag, FALSE, 0, c)
             ELSE Outcome(NoError, regs, flag, TRUE, g.val, c)

\* a branch whose condition is false, or no branch at all: nothing happens
NoEffect(regs, flag) == Outcome(NoError, regs, flag, FALSE, 0, <<>>)

ExecJmp(regs, flag, operands) == TakeJump(regs, flag, operands)

ExecJeq(regs, flag, operands) ==
    IF flag = 0 THEN TakeJump(regs, flag, operands) ELSE NoEffect(regs, flag)

ExecJgt(regs, flag, operands) ==
    IF flag = 1 THEN TakeJump(regs, flag, operands) ELSE NoEffect(regs, flag)

ExecJlt(regs, flag, operands) ==
    IF flag = -1 THEN TakeJump(regs, flag, operands) ELSE NoEffect(regs, flag)

---------------------------------------------------------------------------
(* The programs a run is constructed with *)

InstructionPool ==
    { <<>>,   \* "": an empty line
      <<" ">>,   \* " ": a whitespace-only line
      <<"H", "A", "L", "T">>,   \* "HALT"
      <<"J", "M", "P", " ", "V", "0">>,   \* "JMP V0"
      <<"J", "M", "P", " ", "R", "0">>,   \* "JMP R0": a target read from a register
      <<"J", "E", "Q", " ", "R", "1">>,   \* "JEQ R1"
      <<"J", "G", "T", " ", "V", "0">>,   \* "JGT V0"
      <<"J", "L", "T", " ", "P", "0">>,   \* "JLT P0": a target read through a pointer
      <<"C", "M", "P", " ", "R", "0", ",", " ", "R", "1">>,   \* "CMP R0, R1"
      <<"C", "M", "P", " ", "V", "1", ",", " ", "P", "1">>,   \* "CMP V1, P1"
      <<"M", "O", "V", " ", "P", "0", ",", " ", "V", "7">>,   \* "MOV P0, V7": a write through a pointer
      <<"M", "O", "V", " ", "R", "1", ",", " ", "P", "0">>,   \* "MOV R1, P0"
      <<"A", "D", "D", " ", "R", "1", ",", " ", "R", "0">>,   \* "ADD R1, R0"
      <<"A", "D", "D", " ", "P", "1", ",", " ", "V", "1">>,   \* "ADD P1, V1"
      <<"M", "U", "L", " ", "R", "0", ",", " ", "V", "2">>,   \* "MUL R0, V2"
      <<"M", "O", "V", " ", "V", "1", ",", " ", "R", "0">>,   \* "MOV V1, R0": an immediate destination
      <<"A", "D", "D", " ", "V", "1", ",", " ", "R", "2">>,   \* "ADD V1, R2": an immediate destination, a source out of range
      <<"M", "U", "L", " ", "V", "3", ",", " ", "V", "1">>,   \* "MUL V3, V1": an immediate destination
      <<"N", "O", "P">>,   \* "NOP": no opcode of the chain
      <<",">>,   \* ",": no token at all
      <<"M", "O", "V", " ", "R", "0">>,   \* "MOV R0": one operand too few
      <<"M", "O", "V", " ", "R", "0", ",", " ", "R", "1", ",", " ", "R", "0">>,   \* "MOV R0, R1, R0": one operand too many
      <<"J", "M", "P">>,   \* "JMP": no target
      <<"J", "G", "T">>,   \* "JGT": no target
      <<"J", "M", "P", " ", "V", "0", ",", " ", "V", "1">>,   \* "JMP V0, V1": one operand too many
      <<"H", "A", "L", "T", " ", "R", "0">>,   \* "HALT R0": one operand too many
      <<"M", "O", "V", " ", "R", "0", ",", " ", "X", "5">>,   \* "MOV R0, X5": an unknown mode letter
      <<"M", "O", "V", " ", "R", "1", "x", ",", " ", "V", "1">>,   \* "MOV R1x, V1": characters after the digits
      <<"J", "M", "P", " ", "R", "-", "1">>,   \* "JMP R-1": a sign
      <<"A", "D", "D", " ", "R", ",", " ", "V", "1">>,   \* "ADD R, V1": no digits
      <<"M", "O", "V", " ", "R", "2", ",", " ", "V", "1">>,   \* "MOV R2, V1": a register index out of range
      <<"M", "O", "V", " ", "R", "0", ",", " ", "P", "2">> }   \* "MOV R0, P2": a pointer register index out of range

RECURSIVE SeqsUpTo(_, _)
SeqsUpTo(S, n) ==
    IF n = 0 THEN {<<>>}
    ELSE LET shorter == SeqsUpTo(S, n - 1)
         IN  shorter \cup {Append(p, x) : p \in shorter, x \in S}

Programs == SeqsUpTo(InstructionPool, MaxProg) \ {<<>>}

\* the two-operand instructions MOV, ADD, MUL and CMP with every pair of
\* operand forms V<d>, R<d>, P<d> over three indices
DataOpcodes == {OpMOV, OpADD, OpMUL, OpCMP}
DataOperands == {<<m, d>> : m \in {"V", "R", "P"}, d \in {"0", "1", "2"}}
DataPool ==
    {op \o <<" ">> \o a \o <<",", " ">> \o b :
        op \in DataOpcodes, a \in DataOperands, b \in DataOperands}

\* one such instruction, alone or after a CMP that leaves the flag non-zero
FlagSetters == {<<"C", "M", "P", " ", "V", "0", ",", " ", "V", "1">>,
                <<"C", "M", "P", " ", "V", "1", ",", " ", "V", "0">>}
DataPrograms ==
    {<<d>> : d \in DataPool} \cup {<<c, d>> : c \in FlagSetters, d \in DataPool}

---------------------------------------------------------------------------
(* The fetch/execute loop *)

\* no call yet, or the last call was of a method without result
NoCall == [op |-> "none", args |-> <<>>, value |-> <<>>, raised |-> NoError]

\* there is no single simulator object
NoSimulator ==
    /\ registers = <<>>
    /\ instructions = <<>>
    /\ max_steps = 0
    /\ ip = 0
    /\ cf = 0
    /\ steps_executed = 0
    /\ status = "none"
    /\ err = NoError
    /\ calls = <<>>

\* there is no pair of simulator objects
NoTwoRuns ==
    /\ heap = <<>>
    /\ sims = <<>>
    /\ args = <<>>
    /\ initial = <<>>

\* there is no index object
NoIndex ==
    /\ time_sorted_list = <<>>
    /\ prefix_trie = <<>>
    /\ added = <<>>

\* there is no hotspot object
NoHotspot ==
    /\ parent = <<>>
    /\ loyalties = <<>>
    /\ scores_in_component = <<>>
    /\ groups = {}

\* the caller makes one simulator object and nothing else
NoOtherObjects ==
    /\ NoTwoRuns
    /\ NoIndex
    /\ NoHotspot
    /\ returned = NoCall

\* __init__ with a program of two-operand instructions
InitData ==
    /\ registers \in [1..NumRegs -> InitialValues]
    /\ instructions \in DataPrograms
    /\ max_steps \in 0..MaxBudget
    /\ ip = 0
    /\ cf = 0
    /\ steps_executed = 0
    /\ status = "running"
    /\ err = NoError
    /\ calls = <<>>
    /\ NoOtherObjects

\* __init__
Init ==
    /\ registers \in [1..NumRegs -> InitialValues]
    /\ instructions \in Programs
    /\ max_steps \in 0..MaxBudget
    /\ ip = 0
    /\ cf = 0
    /\ steps_executed = 0
    /\ status = "running"
    /\ err = NoError
    /\ calls = <<>>
    /\ NoOtherObjects

\* the while condition without its lower bound on ip
LoopCondNoLowerBound ==
    /\ ip < Len(instructions)
    /\ steps_executed < max_steps

\* the while condition with the budget compared by <=
LoopCondInclusiveBudget ==
    /\ 0 <= ip
    /\ ip < Len(instructions)
    /\ steps_executed <= max_steps

\* the while condition of run()
LoopCond ==
    /\ 0 <= ip
    /\ ip < Len(instructions)
    /\ steps_executed < max_steps

\* instruction = self.instructions[self.ip].strip(), and
\* parts = instruction.replace(',', ' ').split(), of every text of the pool:
\* both are functions of the text alone, computed once per text
AllTexts == InstructionPool \cup DataPool
Stripped == [text \in AllTexts |-> Strip(text)]
Tokens == [text \in AllTexts |-> Split(ReplaceComma(Strip(text)))]

Instruction == Stripped[PyIndex(instructions, ip)]
Parts == Tokens[PyIndex(instructions, ip)]
Opcode == Parts[1]
Operands == Tail(Parts)

\* a loop iteration is entered and fetches a non-blank instruction
Fetch ==
    /\ status = "running"
    /\ LoopCond
    /\ Instruction # <<>>
    /\ Parts # <<>>

\* the end of a loop iteration that ignores jumped and always adds 1 to ip
CommitAlwaysAdvance(o) ==
    /\ steps_executed' = steps_executed + 1
    /\ calls' = o.calls
    /\ UNCHANGED <<instructions, max_steps>>
    /\ IF o.err # NoError
       THEN /\ status' = "error"
            /\ err' = o.err
            /\ registers' = o.registers
            /\ cf' = o.cf
            /\ UNCHANGED ip
       ELSE /\ registers' = o.registers
            /\ cf' = o.cf
            /\ ip' = (IF o.jumped THEN o.target ELSE ip) + 1
            /\ UNCHANGED <<status, err>>

\* the end of a loop iteration whose step was not counted
CommitUncounted(o) ==
    /\ calls' = o.calls
    /\ UNCHANGED <<instructions, max_steps, steps_executed>>
    /\ IF o.err # NoError
       THEN /\ status' = "error"
            /\ err' = o.err
            /\ registers' = o.registers
            /\ cf' = o.cf
            /\ UNCHANGED ip
       ELSE /\ registers' = o.registers
            /\ cf' = o.cf
            /\ ip' = IF o.jumped THEN o.target ELSE ip + 1
            /\ UNCHANGED <<status, err>>

\* the end of a loop iteration that ran branch outcome o: an exception leaves
\* run() with the registers and flag as they are when it is raised and ip not
\* assigned; otherwise ip is the jump target or ip + 1
Commit(o) ==
    /\ steps_executed' = steps_executed + 1
    /\ calls' = o.calls
    /\ UNCHANGED <<instructions, max_steps>>
    /\ IF o.err # NoError
       THEN /\ status' = "error"
            /\ err' = o.err
            /\ registers' = o.registers
            /\ cf' = o.cf
            /\ UNCHANGED ip
       ELSE /\ registers' = o.registers
            /\ cf' = o.cf
            /\ ip' = IF o.jumped THEN o.target ELSE ip + 1
            /\ UNCHANGED <<status, err>>

\* a blank instruction skipped before the step is counted
StepBlankUncounted ==
    /\ status = "running"
    /\ LoopCond
    /\ Instruction = <<>>
    /\ ip' = ip + 1
    /\ calls' = <<>>
    /\ UNCHANGED <<registers, instructions, max_steps, cf, steps_executed,
                   status, err>>

\* if not instruction: self.ip += 1; continue
StepBlank ==
    /\ status = "running"
    /\ LoopCond
    /\ Instruction = <<>>
    /\ steps_executed' = steps_executed + 1
    /\ ip' = ip + 1
    /\ calls' = <<>>
    /\ UNCHANGED <<registers, instructions, max_steps, cf, status, err>>

StepMov == Fetch /\ Opcode = OpMOV /\ Commit(ExecMov(registers, cf, Operands))
StepAdd == Fetch /\ Opcode = OpADD /\ Commit(ExecAdd(registers, cf, Operands))
StepMul == Fetch /\ Opcode = OpMUL /\ Commit(ExecMul(registers, cf, Operands))
StepCmp == Fetch /\ Opcode = OpCMP /\ Commit(ExecCmp(registers, cf, Operands))
StepJmp == Fetch /\ Opcode = OpJMP /\ Commit(ExecJmp(registers, cf, Operands))
StepJeq == Fetch /\ Opcode = OpJEQ /\ Commit(ExecJeq(registers, cf, Operands))
StepJgt == Fetch /\ Opcode = OpJGT /\ Commit(ExecJgt(registers, cf, Operands))
StepJlt == Fetch /\ Opcode = OpJLT /\ Commit(ExecJlt(registers, cf, Operands))

\* a HALT branch without its break: the iteration ends like any other
StepHaltNoBreak ==
    /\ Fetch
    /\ Opcode = OpHALT
    /\ steps_executed' = steps_executed + 1
    /\ ip' = ip + 1
    /\ calls' = <<>>
    /\ UNCHANGED <<registers, instructions, max_steps, cf, status, err>>

\* elif opcode == "HALT": break, and run() returns self.registers
StepHalt ==
    /\ Fetch
    /\ Opcode = OpHALT
    /\ steps_executed' = steps_executed + 1
    /\ status' = "done"
    /\ calls' = <<>>
    /\ UNCHANGED <<registers, instructions, max_steps, ip, cf, err>>

\* no branch of the chain matches: the chain has no else
StepUnknown ==
    /\ Fetch
    /\ Opcode \notin KnownOpcodes
    /\ Commit(NoEffect(registers, cf))

\* opcode = parts[0] of an instruction of commas only: parts is empty
StepNoOpcode ==
    /\ status = "running"
    /\ LoopCond
    /\ Instruction # <<>>
    /\ Parts = <<>>
    /\ Commit(Outcome("IndexError", registers, cf, FALSE, 0, <<>>))

\* the while condition is false: run() returns self.registers
Return ==
    /\ status = "running"
    /\ ~LoopCond
    /\ status' = "done"
    /\ UNCHANGED <<registers, instructions, max_steps, ip, cf,
                   steps_executed, err, calls>>

Next ==
    \/ StepBlank /\ UNCHANGED beyondCpu
    \/ StepMov /\ UNCHANGED beyondCpu
    \/ StepAdd /\ UNCHANGED beyondCpu
    \/ StepMul /\ UNCHANGED beyondCpu
    \/ StepCmp /\ UNCHANGED beyondCpu
    \/ StepJmp /\ UNCHANGED beyondCpu
    \/ StepJeq /\ UNCHANGED beyondCpu
    \/ StepJgt /\ UNCHANGED beyondCpu
    \/ StepJlt /\ UNCHANGED beyondCpu
    \/ StepHalt /\ UNCHANGED beyondCpu
    \/ StepUnknown /\ UNCHANGED beyondCpu
    \/ StepNoOpcode /\ UNCHANGED beyondCpu
    \/ Return /\ UNCHANGED beyondCpu

Spec == Init /\ [][Next]_vars

\* the texts of the programs whose runs are followed to their end: jumps to
\* a fixed place and to where a register says, HALT, a blank, a failing MOV
\* and an ADD that changes a jump target
LivePool ==
    { <<"J", "M", "P", " ", "V", "0">>,
      <<"J", "E", "Q", " ", "R", "1">>,
      <<"H", "A", "L", "T">>,
      <<" ">>,
      <<"M", "O", "V", " ", "V", "1", ",", " ", "R", "0">>,
      <<"A", "D", "D", " ", "R", "1", ",", " ", "R", "0">> }

LivePrograms == SeqsUpTo(LivePool, MaxProg) \ {<<>>}

\* __init__ with a program of LivePrograms
InitLive ==
    /\ registers \in [1..NumRegs -> InitialValues]
    /\ instructions \in LivePrograms
    /\ max_steps \in 0..MaxBudget
    /\ ip = 0
    /\ cf = 0
    /\ steps_executed = 0
    /\ status = "running"
    /\ err = NoError
    /\ calls = <<>>
    /\ NoOtherObjects

\* the loop over programs of LivePrograms, which hold no other opcode
NextLive ==
    \/ StepBlank /\ UNCHANGED beyondCpu
    \/ StepMov /\ UNCHANGED beyondCpu
    \/ StepAdd /\ UNCHANGED beyondCpu
    \/ StepJmp /\ UNCHANGED beyondCpu
    \/ StepJeq /\ UNCHANGED beyondCpu
    \/ StepHalt /\ UNCHANGED beyondCpu
    \/ Return /\ UNCHANGED beyondCpu

\* run() is one sequential loop with no suspension point: as long as a step
\* or the return is possible, one is taken
SpecLive == InitLive /\ [][NextLive]_vars /\ WF_vars(NextLive)

\* the loop over programs of DataPrograms, which hold no other opcode
NextData ==
    \/ StepMov /\ UNCHANGED beyondCpu
    \/ StepAdd /\ UNCHANGED beyondCpu
    \/ StepMul /\ UNCHANGED beyondCpu
    \/ StepCmp /\ UNCHANGED beyondCpu
    \/ Return /\ UNCHANGED beyondCpu

SpecData == InitData /\ [][NextData]_vars

---------------------------------------------------------------------------
(* Two simulator objects made from the same arguments, their loop          *)
(* iterations interleaved.  Lists are objects of the heap, so that two     *)
(* names for one list see each other's writes.                             *)

Runs == {1, 2}

\* the variables of everything but the two simulator objects
beyondTwoRuns == <<cpuVars, indexVars, hotspotVars, returned>>

\* the identity of the caller's register list
CallerList == 0

\* the texts the two-object programs are made of
TwoRunPool ==
    { <<"A", "D", "D", " ", "R", "1", ",", " ", "R", "0">>,
      <<"M", "O", "V", " ", "P", "0", ",", " ", "V", "7">>,
      <<"C", "M", "P", " ", "R", "0", ",", " ", "R", "1">>,
      <<"J", "G", "T", " ", "V", "0">>,
      <<"M", "O", "V", " ", "V", "1", ",", " ", "R", "0">>,
      <<"H", "A", "L", "T">> }

TwoRunPrograms == SeqsUpTo(TwoRunPool, MaxProg) \ {<<>>}

\* self.registers = registers: the simulator keeps the caller's own list
ListAlias(h, src, id) == [heap |-> h, ref |-> src]

\* list(registers): a new list object id with the contents of list src
ListCopy(h, src, id) == [heap |-> h @@ (id :> h[src]), ref |-> id]

\* a flag kept on the class: a write by one object shows in every object
PutSimClassFlag(ss, r, s) ==
    [q \in DOMAIN ss |-> IF q = r THEN s ELSE [ss[q] EXCEPT !.cf = s.cf]]

\* the assignments to self.<field> of object r: no other object changes
PutSim(ss, r, s) == [ss EXCEPT ![r] = s]

\* the fields __init__ sets, with self.registers the list object ref
NewSim(ref, instrs, budget) ==
    [registers |-> ref, instructions |-> instrs, max_steps |-> budget,
     ip |-> 0, cf |-> 0, steps_executed |-> 0,
     status |-> "running", err |-> NoError]

\* the while condition of run(), of object s
SimLoopCond(s) ==
    /\ 0 <= s.ip
    /\ s.ip < Len(s.instructions)
    /\ s.steps_executed < s.max_steps

\* the if/elif chain of run() on opcode (HALT apart)
Dispatch(opcode, regs, flag, operands) ==
    IF opcode = OpMOV THEN ExecMov(regs, flag, operands)
    ELSE IF opcode = OpADD THEN ExecAdd(regs, flag, operands)
    ELSE IF opcode = OpMUL THEN ExecMul(regs, flag, operands)
    ELSE IF opcode = OpCMP THEN ExecCmp(regs, flag, operands)
    ELSE IF opcode = OpJMP THEN ExecJmp(regs, flag, operands)
    ELSE IF opcode = OpJEQ THEN ExecJeq(regs, flag, operands)
    ELSE IF opcode = OpJGT THEN ExecJgt(regs, flag, operands)
    ELSE IF opcode = OpJLT THEN ExecJlt(regs, flag, operands)
    ELSE NoEffect(regs, flag)

\* one loop iteration of run() of object s whose register list holds regs:
\* the object's fields and the list's contents afterwards
SimStep(s, regs) ==
    LET text  == PyIndex(s.instructions, s.ip)
        parts == Tokens[text]
        n     == s.steps_executed + 1
    IN  IF Stripped[text] # <<>> /\ parts # <<>> /\ parts[1] = OpHALT
        THEN [sim |-> [s EXCEPT !.steps_executed = n, !.status = "done"],
              registers |-> regs]
        ELSE LET o == IF Stripped[text] = <<>> THEN NoEffect(regs, s.cf)
                      ELSE IF parts = <<>>
                      THEN Outcome("IndexError", regs, s.cf, FALSE, 0, <<>>)
                      ELSE Dispatch(parts[1], regs, s.cf, Tail(parts))
             IN  IF o.err # NoError
                 THEN [sim |-> [s EXCEPT !.steps_executed = n,
                                         !.status = "error",
                                         !.cf = o.cf,
                                         !.err = o.err],
                       registers |-> o.registers]
                 ELSE [sim |-> [s EXCEPT !.steps_executed = n,
                                         !.cf = o.cf,
                                         !.ip = IF o.jumped THEN o.target
                                                ELSE s.ip + 1],
                       registers |-> o.registers]

\* the caller holds a register list, a program and a budget; no simulator yet
InitTwoRuns ==
    /\ initial \in [1..NumRegs -> InitialValues]
    /\ heap = (CallerList :> initial)
    /\ args \in [instructions : TwoRunPrograms, max_steps : 0..MaxBudget]
    /\ sims = <<>>
    /\ NoSimulator
    /\ NoIndex
    /\ NoHotspot
    /\ returned = NoCall

\* CPUSimulator(registers, instructions, max_steps) for run r
Construct(r) ==
    /\ r \notin DOMAIN sims
    /\ LET c == ListCopy(heap, CallerList, r)
       IN  /\ heap' = c.heap
           /\ sims' = sims @@ (r :> NewSim(c.ref, args.instructions,
                                           args.max_steps))
    /\ UNCHANGED <<args, initial, beyondTwoRuns>>

\* one loop iteration of run() of object r
RunStep(r) ==
    /\ r \in DOMAIN sims
    /\ sims[r].status = "running"
    /\ SimLoopCond(sims[r])
    /\ LET n == SimStep(sims[r], heap[sims[r].registers])
       IN  /\ sims' = PutSim(sims, r, n.sim)
           /\ heap' = [heap EXCEPT ![sims[r].registers] = n.registers]
    /\ UNCHANGED <<args, initial, beyondTwoRuns>>

\* the while condition of object r is false: run() returns self.registers
RunReturn(r) ==
    /\ r \in DOMAIN sims
    /\ sims[r].status = "running"
    /\ ~SimLoopCond(sims[r])
    /\ sims' = PutSim(sims, r, [sims[r] EXCEPT !.status = "done"])
    /\ UNCHANGED <<heap, args, initial, beyondTwoRuns>>

NextTwoRuns ==
    \E r \in Runs :
        \/ Construct(r)
        \/ RunStep(r)
        \/ RunReturn(r)

SpecTwoRuns == InitTwoRuns /\ [][NextTwoRuns]_vars

---------------------------------------------------------------------------
(* ChronoLexIndex (src/chrono_lexicographical_index.py).  Words are        *)
(* sequences of one-character strings.  The trie of nested dicts is a      *)
(* function from the path that leads to a node (the prefix spelled from    *)
(* the root) to that node's own keys: "_latest" -> (timestamp, word) and   *)
(* "_end" -> TRUE; a character c is a key of the node at path p exactly    *)
(* when p \o <<c>> is a path of the function.                              *)

MaxAdds == 2

Alphabet == {"a", "b"}
Words ==
    {<<>>} \cup {<<c>> : c \in Alphabet}
           \cup {<<c, d>> : c \in Alphabet, d \in Alphabet}
Timestamps == {-2, 0, 1}

\* the variables of everything but the index object
beyondIndex == <<cpuVars, simVars, hotspotVars>>

\* ord(c)
CharCode == [c \in Alphabet |-> IF c = "a" THEN 97 ELSE 98]

\* u < v of two Python strings
StrLess(u, v) ==
    \E k \in 1..Len(v) :
        /\ Len(u) >= k - 1
        /\ SubSeq(u, 1, k - 1) = SubSeq(v, 1, k - 1)
        /\ \/ Len(u) = k - 1
           \/ CharCode[u[k]] < CharCode[v[k]]

\* a < b of two (timestamp, word) tuples
TupleLess(a, b) ==
    \/ a[1] < b[1]
    \/ a[1] = b[1] /\ StrLess(a[2], b[2])

\* bisect.bisect_left(lst, x) on a sorted list: the least 0-based position
\* with no element less than x at or after it
BisectLeft(lst, x) ==
    LET notLess == {i \in 1..Len(lst) : ~TupleLess(lst[i], x)}
    IN  IF notLess = {} THEN Len(lst)
        ELSE (CHOOSE i \in notLess : \A j \in notLess : i <= j) - 1

\* bisect.bisect_right(lst, x) on a sorted list: the least 0-based position
\* with only elements greater than x at or after it
BisectRight(lst, x) ==
    LET greater == {i \in 1..Len(lst) : TupleLess(x, lst[i])}
    IN  IF greater = {} THEN Len(lst)
        ELSE (CHOOSE i \in greater : \A j \in greater : i <= j) - 1

\* bisect.insort(lst, x): insert at bisect_right
Insort(lst, x) ==
    LET at == BisectRight(lst, x)
    IN  SubSeq(lst, 1, at) \o <<x>> \o SubSeq(lst, at + 1, Len(lst))

\* a dict with no key
EmptyDict == <<>>

\* node.get('_latest', (-1, ''))[0]
LatestTs(node) ==
    IF "_latest" \in DOMAIN node THEN node["_latest"][1] ELSE -1

\* node[key] = value, of the node at path
SetKey(trie, path, key, value) ==
    [trie EXCEPT ![path] = (key :> value) @@ @]

\* if timestamp >= <latest of the node>: node['_latest'] = (timestamp, word)
UpdateLatest(trie, path, word, timestamp) ==
    IF timestamp >= LatestTs(trie[path])
    THEN SetKey(trie, path, "_latest", <<timestamp, word>>)
    ELSE trie

\* the for loop of add_word from the k-th character of word on, and the
\* node['_end'] = True after it
RECURSIVE Descend(_, _, _, _)
Descend(trie, word, timestamp, k) ==
    IF k > Len(word) THEN SetKey(trie, word, "_end", TRUE)
    ELSE LET path    == SubSeq(word, 1, k)
             created == IF path \in DOMAIN trie THEN trie
                        ELSE trie @@ (path :> EmptyDict)
         IN  Descend(UpdateLatest(created, path, word, timestamp),
                     word, timestamp, k + 1)

\* the loop of query_time_range_lex_sort from 0-based position i on, with
\* the test of the upper bound exclusive
RECURSIVE CollectFromExclusive(_, _, _)
CollectFromExclusive(lst, i, end_ts) ==
    IF i >= Len(lst) THEN <<>>
    ELSE IF lst[i + 1][1] < end_ts
         THEN <<lst[i + 1][2]>> \o CollectFromExclusive(lst, i + 1, end_ts)
         ELSE <<>>

\* the loop of query_time_range_lex_sort from 0-based position i on: the
\* words up to the first entry later than end_ts
RECURSIVE CollectFrom(_, _, _)
CollectFrom(lst, i, end_ts) ==
    IF i >= Len(lst) THEN <<>>
    ELSE IF lst[i + 1][1] <= end_ts
         THEN <<lst[i + 1][2]>> \o CollectFrom(lst, i + 1, end_ts)
         ELSE <<>>

\* words.sort()
RECURSIVE SortWords(_)
SortWords(ws) ==
    IF ws = <<>> THEN <<>>
    ELSE LET rest == SortWords(Tail(ws))
             w    == Head(ws)
             n    == Cardinality({i \in 1..Len(rest) : StrLess(rest[i], w)})
         IN  SubSeq(rest, 1, n) \o <<w>> \o SubSeq(rest, n + 1, Len(rest))

\* query_time_range_lex_sort(start_ts, end_ts)
TimeRangeLexSort(lst, start_ts, end_ts) ==
    SortWords(CollectFrom(lst, BisectLeft(lst, <<start_ts, <<>> >>), end_ts))

\* a method returned None
None == <<>>

\* query_prefix_recent_timestamp(prefix) from the k-th character of prefix
\* on, having arrived at the node at path SubSeq(prefix, 1, k - 1)
RECURSIVE PrefixRecentFrom(_, _, _)
PrefixRecentFrom(trie, prefix, k) ==
    IF k > Len(prefix)
    THEN IF "_latest" \in DOMAIN trie[prefix]
         THEN <<trie[prefix]["_latest"][1]>>
         ELSE None
    ELSE IF SubSeq(prefix, 1, k) \notin DOMAIN trie THEN None
         ELSE PrefixRecentFrom(trie, prefix, k + 1)

\* ChronoLexIndex()
InitIndex ==
    /\ time_sorted_list = <<>>
    /\ prefix_trie = (<<>> :> EmptyDict)
    /\ added = <<>>
    /\ returned = NoCall
    /\ NoSimulator
    /\ NoTwoRuns
    /\ NoHotspot

\* add_word(word, timestamp)
AddWord(word, timestamp) ==
    /\ Len(added) < MaxAdds
    /\ time_sorted_list' = Insort(time_sorted_list, <<timestamp, word>>)
    /\ prefix_trie' =
         Descend(UpdateLatest(prefix_trie, <<>>, word, timestamp),
                 word, timestamp, 1)
    /\ added' = Append(added, <<word, timestamp>>)
    /\ returned' = NoCall
    /\ UNCHANGED beyondIndex

\* query_time_range_lex_sort(start_ts, end_ts)
QueryTimeRange(start_ts, end_ts) ==
    /\ returned' = [op |-> "query_time_range_lex_sort",
                    args |-> <<start_ts, end_ts>>,
                    value |-> TimeRangeLexSort(time_sorted_list,
                                               start_ts, end_ts),
                    raised |-> NoError]
    /\ UNCHANGED <<indexVars, beyondIndex>>

\* query_prefix_recent_timestamp(prefix)
QueryPrefix(prefix) ==
    /\ returned' = [op |-> "query_prefix_recent_timestamp",
                    args |-> <<prefix>>,
                    value |-> PrefixRecentFrom(prefix_trie, prefix, 1),
                    raised |-> NoError]
    /\ UNCHANGED <<indexVars, beyondIndex>>

NextIndex ==
    \/ \E word \in Words, timestamp \in Timestamps : AddWord(word, timestamp)
    \/ \E start_ts \in Timestamps, end_ts \in Timestamps :
            QueryTimeRange(start_ts, end_ts)
    \/ \E prefix \in Words : QueryPrefix(prefix)

SpecIndex == InitIndex /\ [][NextIndex]_vars

---------------------------------------------------------------------------
(* LoyaltyHotspot (src/loyalty_hotspot.py): a union-find over the people   *)
(* 0 .. n-1 whose roots carry the sorted list of their group's scores.     *)

NumPeople == 4
MaxFriendships == 1

People == 0..(NumPeople - 1)
Scores == {-1, 1}

\* every person id a caller passes, the two nearest invalid ones included
PersonArgs == -1..NumPeople

\* the friendships argument of the constructor
Friendships == SeqsUpTo(People \X People, MaxFriendships)

\* the variables of everything but the hotspot object
beyondHotspot == <<cpuVars, simVars, indexVars>>

\* _find(i): the root of i, and self._parent after the path compression
RECURSIVE Find(_, _)
Find(par, i) ==
    IF PyIndex(par, i) = i THEN [root |-> i, parent |-> par]
    ELSE LET f == Find(par, PyIndex(par, i))
         IN  [root |-> f.root, parent |-> PyStore(f.parent, i, f.root)]

\* bisect.insort(lst, x) of integers: after every element <= x
InsortScore(lst, x) ==
    LET n == Cardinality({k \in 1..Len(lst) : lst[k] <= x})
    IN  SubSeq(lst, 1, n) \o <<x>> \o SubSeq(lst, n + 1, Len(lst))

\* lst.sort() of integers
RECURSIVE SortScores(_)
SortScores(lst) ==
    IF lst = <<>> THEN <<>>
    ELSE InsortScore(SortScores(Tail(lst)), Head(lst))

\* an update that leaves the old score in the list
RemoveNothing(lst, x) == lst

\* lst.remove(x): without the first element equal to x
RemoveFirst(lst, x) ==
    LET k == CHOOSE i \in 1..Len(lst) :
                 lst[i] = x /\ \A j \in 1..(i - 1) : lst[j] # x
    IN  SubSeq(lst, 1, k - 1) \o SubSeq(lst, k + 1, Len(lst))

\* a union that leaves the absorbed root's list in the dict
KeepKey(d, key) == d

\* del d[key]
DelKey(d, key) == [k \in DOMAIN d \ {key} |-> d[k]]

\* _union(i, j): self._parent and self._scores_in_component afterwards
UnionOf(par, scores, i, j) ==
    LET fi == Find(par, i)
        fj == Find(fi.parent, j)
    IN  IF fi.root = fj.root
        THEN [parent |-> fj.parent, scores |-> scores]
        ELSE LET swap   == Len(scores[fi.root]) < Len(scores[fj.root])
                 root_i == IF swap THEN fj.root ELSE fi.root
                 root_j == IF swap THEN fi.root ELSE fj.root
                 merged == SortScores(scores[root_i] \o scores[root_j])
             IN  [parent |-> PyStore(fj.parent, root_j, root_i),
                  scores |-> DelKey([scores EXCEPT ![root_i] = merged],
                                    root_j)]

\* for p1, p2 in friendships: self._union(p1, p2), from the k-th pair on
RECURSIVE UnionAll(_, _, _, _)
UnionAll(par, scores, friendships, k) ==
    IF k > Len(friendships) THEN [parent |-> par, scores |-> scores]
    ELSE LET u == UnionOf(par, scores, friendships[k][1], friendships[k][2])
         IN  UnionAll(u.parent, u.scores, friendships, k + 1)

\* the friend groups gs once i and j are friends
Join(gs, i, j) ==
    LET gi == CHOOSE g \in gs : i \in g
        gj == CHOOSE g \in gs : j \in g
    IN  (gs \ {gi, gj}) \cup {gi \cup gj}

\* the friend groups once the pairs of friendships from the k-th on are
\* friends
RECURSIVE JoinAll(_, _, _)
JoinAll(gs, friendships, k) ==
    IF k > Len(friendships) THEN gs
    ELSE JoinAll(Join(gs, friendships[k][1], friendships[k][2]),
                 friendships, k + 1)

\* LoyaltyHotspot(n, friendships, initial_loyalties)
InitHotspot ==
    /\ \E initial_loyalties \in [1..NumPeople -> Scores],
          friendships \in Friendships :
         LET u == UnionAll([k \in 1..NumPeople |-> k - 1],
                           [i \in People |-> <<initial_loyalties[i + 1]>>],
                           friendships, 1)
         IN  /\ parent = u.parent
             /\ scores_in_component = u.scores
             /\ loyalties = initial_loyalties
             /\ groups = JoinAll({{q} : q \in People}, friendships, 1)
    /\ returned = NoCall
    /\ NoSimulator
    /\ NoTwoRuns
    /\ NoIndex

\* _union(i, j)
Union(i, j) ==
    /\ LET u == UnionOf(parent, scores_in_component, i, j)
       IN  /\ parent' = u.parent
           /\ scores_in_component' = u.scores
    /\ groups' = Join(groups, i, j)
    /\ returned' = NoCall
    /\ UNCHANGED <<loyalties, beyondHotspot>>

\* update_loyalty(person, new_loyalty)
UpdateLoyalty(person, new_loyalty) ==
    IF ~(0 <= person /\ person < Len(parent))
    THEN /\ returned' = [op |-> "update_loyalty",
                         args |-> <<person, new_loyalty>>,
                         value |-> None, raised |-> "ValueError"]
         /\ UNCHANGED <<hotspotVars, beyondHotspot>>
    ELSE LET f   == Find(parent, person)
             old == PyIndex(loyalties, person)
         IN  /\ parent' = f.parent
             /\ loyalties' = PyStore(loyalties, person, new_loyalty)
             /\ scores_in_component' =
                  [scores_in_component EXCEPT ![f.root] =
                      InsortScore(RemoveFirst(@, old), new_loyalty)]
             /\ returned' = NoCall
             /\ UNCHANGED <<groups, beyondHotspot>>

\* query_max_loyalty(person)
QueryMaxLoyalty(person) ==
    IF ~(0 <= person /\ person < Len(parent))
    THEN /\ returned' = [op |-> "query_max_loyalty", args |-> <<person>>,
                         value |-> None, raised |-> "ValueError"]
         /\ UNCHANGED <<hotspotVars, beyondHotspot>>
    ELSE LET f      == Find(parent, person)
             scores == scores_in_component[f.root]
         IN  /\ parent' = f.parent
             /\ returned' = [op |-> "query_max_loyalty", args |-> <<person>>,
                             value |-> IF scores = <<>> THEN <<-1>>
                                       ELSE <<scores[Len(scores)]>>,
                             raised |-> NoError]
             /\ UNCHANGED <<loyalties, scores_in_component, groups,
                            beyondHotspot>>

NextHotspot ==
    \/ \E i \in People, j \in People : Union(i, j)
    \/ \E person \in PersonArgs, new_loyalty \in Scores :
            UpdateLoyalty(person, new_loyalty)
    \/ \E person \in PersonArgs : QueryMaxLoyalty(person)

SpecHotspot == InitHotspot /\ [][NextHotspot]_vars

---------------------------------------------------------------------------
(* Vocabulary of the properties below *)

\* ip is an index of the program
InRange == 0 <= ip /\ ip < Len(instructions)

\* this step is one loop iteration of run()
Iteration == steps_executed' = steps_executed + 1

\* a token of the operand grammar: one mode letter, then decimal digits only
WellFormed(tok) ==
    /\ Len(tok) >= 2
    /\ tok[1] \in {"V", "R", "P"}
    /\ \A j \in 2..Len(tok) : tok[j] \in Digits

\* the number a well-formed token carries
TokIndex(tok) == IntOf(Tail(tok))

\* a register operand that names no register of regs, at either hop
OutOfRangeOperand(tok, regs) ==
    /\ WellFormed(tok)
    /\ tok[1] \in {"R", "P"}
    /\ LET i == TokIndex(tok)
       IN  \/ ~(0 <= i /\ i < Len(regs))
           \/ /\ tok[1] = "P"
              /\ ~(0 <= regs[i + 1] /\ regs[i + 1] < Len(regs))

\* what a well-formed operand that names registers of regs refers to
RefRead(tok, regs) ==
    LET i == TokIndex(tok)
    IN  IF tok[1] = "V" THEN i
        ELSE IF tok[1] = "R" THEN regs[i + 1]
        ELSE regs[regs[i + 1] + 1]

\* the position in regs (counted from 1) that a well-formed register or
\* pointer operand designates
DestCell(tok, regs) ==
    IF tok[1] = "R" THEN TokIndex(tok) + 1 ELSE regs[TokIndex(tok) + 1] + 1

\* the operand count each opcode takes
Arity(op) ==
    IF op = OpHALT THEN 0
    ELSE IF op \in {OpJMP, OpJEQ, OpJGT, OpJLT} THEN 1 ELSE 2

\* a MOV, ADD or MUL is fetched whose destination operand is an immediate
ImmediateDestination ==
    /\ Fetch
    /\ Opcode \in {OpMOV, OpADD, OpMUL}
    /\ Operands # <<>>
    /\ WellFormed(Operands[1])
    /\ Operands[1][1] = "V"

---------------------------------------------------------------------------
(* C1: whenever the program counter is outside [0, number of instructions) *)
(* at the start of a step, the run returns, and it returns normally: no    *)
(* error, and registers, flag, pc and step counter are returned as they    *)
(* are at that moment.                                                     *)
C1_PcOutOfRangeReturns ==
    /\ [](status = "running" /\ ~InRange => ENABLED Return)
    /\ [][(status = "running" /\ ~InRange) =>
            /\ status' = "done"
            /\ err' = NoError
            /\ registers' = registers
            /\ cf' = cf
            /\ ip' = ip
            /\ steps_executed' = steps_executed]_vars

\* a taken jump read a negative target from a register, and the run returned
C1_Witness ==
    /\ status = "done"
    /\ err = NoError
    /\ ip < 0
    /\ steps_executed > 0

---------------------------------------------------------------------------
(* C2: the step counter never exceeds the step budget; a run that reaches  *)
(* the budget returns at once, without error and with the registers as     *)
(* they are; and while the pc is in range and the budget is not used up    *)
(* every step is a loop iteration, so such a run performs exactly as many  *)
(* iterations as the budget.                                               *)
C2_StepBudget ==
    /\ [](/\ steps_executed <= max_steps
          /\ (status = "running" /\ steps_executed = max_steps)
                => ENABLED Return)
    /\ [][/\ (status = "running" /\ steps_executed = max_steps) =>
                /\ status' = "done"
                /\ err' = NoError
                /\ registers' = registers
                /\ steps_executed' = steps_executed
          /\ (status = "running" /\ InRange /\ steps_executed < max_steps)
                => Iteration]_vars

\* a program that loops on itself was stopped by a budget of MaxBudget steps
C2_Witness ==
    /\ status = "done"
    /\ err = NoError
    /\ instructions = << <<"J", "M", "P", " ", "V", "0">> >>
    /\ max_steps = MaxBudget
    /\ steps_executed = max_steps
    /\ ip = 0

---------------------------------------------------------------------------
(* C3: executing HALT ends the run at once: the run is done without error, *)
(* registers, flag and pc are as they were before the HALT, and no step    *)
(* follows the end of a run.                                               *)
C3_HaltImmediate ==
    [][/\ (Fetch /\ Opcode = OpHALT) =>
            /\ status' = "done"
            /\ err' = NoError
            /\ registers' = registers
            /\ cf' = cf
            /\ ip' = ip
       /\ status # "done"]_vars

\* a HALT that is followed by another instruction ended the run before the
\* budget was used up
C3_Witness ==
    /\ status = "done"
    /\ InRange
    /\ ip + 1 < Len(instructions)
    /\ steps_executed < max_steps
    /\ Tokens[PyIndex(instructions, ip)] = <<OpHALT>>

---------------------------------------------------------------------------
(* C4: a write through a pointer operand P<i>, with i and registers[i] in  *)
(* [0, N), stores the value in registers[registers[i]], taking             *)
(* registers[i] from before the write, and changes no other register;      *)
(* registers[i] changes only when registers[i] = i.                        *)
C4_PointerWrite ==
    [][Iteration =>
        \A k \in DOMAIN calls' :
            LET c == calls'[k]
                i == TokIndex(c.operand)
            IN  (/\ c.fn = "set"
                 /\ WellFormed(c.operand)
                 /\ c.operand[1] = "P"
                 /\ ~OutOfRangeOperand(c.operand, registers))
                => /\ status' = "running"
                   /\ registers'[registers[i + 1] + 1] = c.value
                   /\ \A j \in 1..Len(registers) :
                        j # registers[i + 1] + 1 => registers'[j] = registers[j]
                   /\ registers[i + 1] # i => registers'[i + 1] = registers[i + 1]
                   /\ Len(registers') = Len(registers)]_vars

\* "MOV P0, V7" wrote 7 to register 1 through register 0, which still holds 1
C4_Witness ==
    /\ status = "running"
    /\ calls # <<>>
    /\ calls[Len(calls)] = Call("set", <<"P", "0">>, 7, NoError)
    /\ registers[1] = 1
    /\ registers[2] = 7

---------------------------------------------------------------------------
(* C5: every read or write of an operand R<i> with i outside [0, N), or of *)
(* an operand P<i> with i or registers[i] outside [0, N), aborts the run   *)
(* with the register-out-of-range error and leaves every register as it    *)
(* was.                                                                    *)
C5_OutOfRangeAborts ==
    [][Iteration =>
        \A k \in DOMAIN calls' :
            OutOfRangeOperand(calls'[k].operand, registers)
            => /\ calls'[k].err = "RegisterOutOfRange"
               /\ status' = "error"
               /\ err' = "RegisterOutOfRange"
               /\ registers' = registers]_vars

\* a pointer operand whose register holds -1 was resolved, and the run aborted
C5_Witness ==
    /\ status = "error"
    /\ err = "RegisterOutOfRange"
    /\ calls # <<>>
    /\ calls[Len(calls)].operand \in {<<"P", "0">>, <<"P", "1">>}
    /\ registers[TokIndex(calls[Len(calls)].operand) + 1] = -1

---------------------------------------------------------------------------
(* C6 as stated: executing MOV, ADD or MUL whose destination operand is an *)
(* immediate aborts the run with the invalid-write-target error and writes *)
(* no register.                                                            *)
C6_Original ==
    [][ImmediateDestination =>
            /\ status' = "error"
            /\ err' = "InvalidWriteTarget"
            /\ registers' = registers]_vars

(* C6 as amended: executing MOV, ADD or MUL whose destination operand is   *)
(* an immediate aborts the run with an error and writes no register; the   *)
(* error is the invalid-write-target error when the instruction has        *)
(* exactly two operands and its source operand resolves without error.     *)
C6_Amended ==
    [][ImmediateDestination =>
            /\ status' = "error"
            /\ registers' = registers
            /\ (Len(Operands) = 2 /\ GetValue(registers, Operands[2]).err = NoError)
                    => err' = "InvalidWriteTarget"]_vars

\* the write to an immediate destination was attempted and refused
C6_Witness ==
    /\ status = "error"
    /\ err = "InvalidWriteTarget"
    /\ calls # <<>>
    /\ calls[Len(calls)].fn = "set"
    /\ calls[Len(calls)].operand[1] = "V"

---------------------------------------------------------------------------
(* C7: executing a non-blank instruction whose opcode is none of MOV, ADD, *)
(* MUL, CMP, JMP, JEQ, JGT, JLT, HALT aborts the run with an error.        *)
C7_UnknownOpcodeAborts ==
    [][(Fetch /\ Opcode \notin KnownOpcodes) => status' = "error"]_vars

---------------------------------------------------------------------------
(* C8: executing an instruction whose number of operands differs from its  *)
(* opcode's arity, with too few or too many operands, aborts the run with  *)
(* an error.                                                               *)
C8_ArityMismatchAborts ==
    [][(Fetch /\ Opcode \in KnownOpcodes /\ Len(Operands) # Arity(Opcode))
            => status' = "error"]_vars

---------------------------------------------------------------------------
(* C9: resolving an operand token that is not exactly one mode letter V, R *)
(* or P followed by decimal digits and nothing else aborts the run with    *)
(* the invalid-operand-format error.                                       *)
C9_MalformedTokenAborts ==
    [][Iteration =>
        \A k \in DOMAIN calls' :
            ~WellFormed(calls'[k].operand)
            => /\ status' = "error"
               /\ err' = "InvalidOperandFormat"]_vars

---------------------------------------------------------------------------
(* C10: a jump that raises no error leaves registers and flag unchanged;   *)
(* JMP always, and JEQ / JGT / JLT exactly when the flag is 0 / 1 / -1,    *)
(* sets pc to the value its target operand refers to in the registers as   *)
(* they are when the jump executes, whatever that value; a conditional     *)
(* jump that is not taken sets pc to pc + 1.                               *)
C10_Jumps ==
    [][(Fetch /\ Opcode \in {OpJMP, OpJEQ, OpJGT, OpJLT} /\ status' # "error") =>
        LET taken == \/ Opcode = OpJMP
                     \/ Opcode = OpJEQ /\ cf = 0
                     \/ Opcode = OpJGT /\ cf = 1
                     \/ Opcode = OpJLT /\ cf = -1
        IN  /\ registers' = registers
            /\ cf' = cf
            /\ status' = "running"
            /\ IF taken
               THEN /\ Operands # <<>>
                    /\ WellFormed(Operands[1])
                          => ip' = RefRead(Operands[1], registers)
               ELSE ip' = ip + 1]_vars

\* "MUL R0, V2" made register 0 hold -2, and "JMP R0" then set pc to it
C10_Witness ==
    /\ status = "running"
    /\ steps_executed = 2
    /\ instructions = << <<"M", "U", "L", " ", "R", "0", ",", " ", "V", "2">>,
                         <<"J", "M", "P", " ", "R", "0">> >>
    /\ registers[1] = -2
    /\ ip = -2

---------------------------------------------------------------------------
(* C11: CMP op1, op2 with well-formed, in-range operands of any addressing *)
(* modes sets the flag to -1 (LessThan) if read(op1) < read(op2), to 1     *)
(* (GreaterThan) if read(op1) > read(op2) and to 0 (Equal) otherwise,      *)
(* changes no register and advances pc by 1.                               *)
C11_CmpSemantics ==
    [][(/\ Fetch
        /\ Opcode = OpCMP
        /\ Len(Operands) = 2
        /\ \A k \in 1..2 : /\ WellFormed(Operands[k])
                           /\ ~OutOfRangeOperand(Operands[k], registers))
       => LET a == RefRead(Operands[1], registers)
              b == RefRead(Operands[2], registers)
          IN  /\ status' = "running"
              /\ cf' = (IF a < b THEN -1 ELSE IF a > b THEN 1 ELSE 0)
              /\ registers' = registers
              /\ ip' = ip + 1]_vars

\* "CMP P0, P1" on [1, 0] compared register 1 (0) with register 0 (1)
C11_Witness ==
    /\ status = "running"
    /\ steps_executed = 1
    /\ Tokens[instructions[1]] = <<OpCMP, <<"P", "0">>, <<"P", "1">> >>
    /\ registers[1] = 1
    /\ registers[2] = 0
    /\ cf = -1
    /\ ip = 1

---------------------------------------------------------------------------
(* C12: a MOV / ADD / MUL dst, src that raises no error changes exactly    *)
(* the cell dst designates, to read(src) / read(dst) + read(src) /         *)
(* read(dst) * read(src), both reads and the designation of the cell taken *)
(* from the registers before the write; the flag is unchanged and pc       *)
(* becomes pc + 1.                                                         *)
C12_DataOps ==
    [][(/\ Fetch
        /\ Opcode \in {OpMOV, OpADD, OpMUL}
        /\ Len(Operands) = 2
        /\ WellFormed(Operands[1])
        /\ WellFormed(Operands[2])
        /\ status' = "running")
       => LET dst  == Operands[1]
              src  == Operands[2]
              cell == DestCell(dst, registers)
              v    == IF Opcode = OpMOV THEN RefRead(src, registers)
                      ELSE IF Opcode = OpADD
                      THEN RefRead(dst, registers) + RefRead(src, registers)
                      ELSE RefRead(dst, registers) * RefRead(src, registers)
          IN  /\ dst[1] \in {"R", "P"}
              /\ ~OutOfRangeOperand(dst, registers)
              /\ ~OutOfRangeOperand(src, registers)
              /\ registers' = [registers EXCEPT ![cell] = v]
              /\ cf' = cf
              /\ ip' = ip + 1]_vars

\* after "CMP V1, V0", "ADD P0, R1" on [1, 1] doubled register 1, which is
\* both the cell P0 designates and the source; the flag is still 1
C12_Witness ==
    /\ status = "running"
    /\ steps_executed = 2
    /\ Len(instructions) = 2
    /\ Tokens[instructions[2]] = <<OpADD, <<"P", "0">>, <<"R", "1">> >>
    /\ registers[1] = 1
    /\ registers[2] = 2
    /\ cf = 1
    /\ ip = 2

---------------------------------------------------------------------------
\* the object and its register contents after k loop iterations of a run
\* that has the caller's arguments and no other object beside it
RECURSIVE Alone(_)
Alone(k) ==
    IF k = 0
    THEN [sim |-> NewSim(CallerList, args.instructions, args.max_steps),
          registers |-> initial]
    ELSE LET p == Alone(k - 1)
         IN  IF p.sim.status = "running" /\ SimLoopCond(p.sim)
             THEN SimStep(p.sim, p.registers)
             ELSE p

(* C13: two runs made from the same registers, instructions and budget     *)
(* pass through the same states: whenever both have executed the same      *)
(* number of iterations and have the same status, their pc, flag, error    *)
(* and register contents are equal; and when both have ended, they ended   *)
(* after the same number of iterations, both by returning or both by the   *)
(* same error, with equal pc and equal register contents.                  *)
C13_Deterministic ==
    (1 \in DOMAIN sims /\ 2 \in DOMAIN sims) =>
        LET a == sims[1]
            b == sims[2]
            same == /\ a.ip = b.ip
                    /\ a.cf = b.cf
                    /\ a.err = b.err
                    /\ heap[a.registers] = heap[b.registers]
        IN  /\ (a.steps_executed = b.steps_executed /\ a.status = b.status)
                => same
            /\ (a.status # "running" /\ b.status # "running")
                => /\ a.steps_executed = b.steps_executed
                   /\ a.status = b.status
                   /\ same

\* both runs returned after two iterations with equal registers, held in two
\* list objects, that differ from the caller's
C13_Witness ==
    /\ DOMAIN sims = Runs
    /\ sims[1].status = "done"
    /\ sims[2].status = "done"
    /\ sims[1].steps_executed = 2
    /\ sims[1].registers # sims[2].registers
    /\ heap[sims[1].registers] = heap[sims[2].registers]
    /\ heap[sims[1].registers] # heap[CallerList]

---------------------------------------------------------------------------
(* C14: with the iterations of two runs interleaved in any order, each     *)
(* run's registers, pc, flag, step counter and outcome are at every moment *)
(* what a run alone has after the same number of iterations, and the       *)
(* caller's register list keeps its initial contents.                      *)
C14_Independent ==
    /\ heap[CallerList] = initial
    /\ \A r \in DOMAIN sims :
        LET s  == sims[r]
            al == Alone(s.steps_executed)
        IN  /\ heap[s.registers] = al.registers
            /\ s.ip = al.sim.ip
            /\ s.cf = al.sim.cf
            /\ s.err = al.sim.err
            /\ \/ s.status = al.sim.status
               \/ /\ s.status = "done"
                  /\ al.sim.status = "running"
                  /\ ~SimLoopCond(al.sim)

\* both runs are under way, one an iteration ahead of the other and with
\* another flag; each has written to its own list, not to the caller's
C14_Witness ==
    /\ DOMAIN sims = Runs
    /\ sims[1].status = "running"
    /\ sims[2].status = "running"
    /\ sims[1].steps_executed = 2
    /\ sims[2].steps_executed = 1
    /\ sims[1].cf # sims[2].cf
    /\ sims[1].registers # sims[2].registers
    /\ heap[sims[1].registers] # initial
    /\ heap[sims[2].registers] # initial

---------------------------------------------------------------------------
(* C15: the register file has the same length in every reachable state of  *)
(* a run as at construction, so the returned vector has the length of the  *)
(* initial registers.                                                      *)
C15_LengthFixed ==
    /\ Len(registers) = NumRegs
    /\ DOMAIN registers = 1..NumRegs

\* a run returned after its last iteration wrote through a pointer
C15_Witness ==
    /\ status = "done"
    /\ calls # <<>>
    /\ calls[Len(calls)].fn = "set"
    /\ calls[Len(calls)].err = NoError
    /\ calls[Len(calls)].operand[1] = "P"

---------------------------------------------------------------------------
\* word w starts with prefix p
StartsWith(w, p) == Len(p) <= Len(w) /\ SubSeq(w, 1, Len(p)) = p

(* C16: query_time_range_lex_sort(start_ts, end_ts) returns, in ascending   *)
(* lexicographic order, one entry for every add_word call so far whose     *)
(* timestamp t has start_ts <= t <= end_ts, and nothing else (so the empty *)
(* list when no call lies in the range).                                   *)
C16_TimeRange ==
    returned.op = "query_time_range_lex_sort" =>
        LET start_ts == returned.args[1]
            end_ts   == returned.args[2]
            r        == returned.value
        IN  /\ \A i \in 1..(Len(r) - 1) : ~StrLess(r[i + 1], r[i])
            /\ \A i \in 1..Len(r) : r[i] \in Words
            /\ \A w \in Words :
                 Cardinality({i \in 1..Len(r) : r[i] = w})
                 = Cardinality({k \in 1..Len(added) :
                                  /\ added[k][1] = w
                                  /\ start_ts <= added[k][2]
                                  /\ added[k][2] <= end_ts})

\* "b" then "a" were added with timestamp 0, and the query of [0, 0] returned
\* ["a", "b"]
C16_Witness ==
    /\ returned.op = "query_time_range_lex_sort"
    /\ returned.args = <<0, 0>>
    /\ added = << <<<<"b">>, 0>>, <<<<"a">>, 0>> >>
    /\ returned.value = << <<"a">>, <<"b">> >>

---------------------------------------------------------------------------
(* C17: query_prefix_recent_timestamp(prefix) returns the largest          *)
(* timestamp among the add_word calls so far whose word starts with        *)
(* prefix, and None exactly when there is no such call.                    *)
C17_PrefixRecent ==
    returned.op = "query_prefix_recent_timestamp" =>
        LET prefix == returned.args[1]
            M == {added[k][2] : k \in {j \in 1..Len(added) :
                                         StartsWith(added[j][1], prefix)}}
        IN  returned.value =
              IF M = {} THEN None
              ELSE <<CHOOSE t \in M : \A u \in M : u <= t>>

---------------------------------------------------------------------------
(* C18: query_max_loyalty(person) of a valid person raises nothing and     *)
(* returns the largest current loyalty score among the people of person's  *)
(* friend group (person included).                                         *)
C18_MaxLoyalty ==
    (returned.op = "query_max_loyalty" /\ returned.args[1] \in People) =>
        LET person == returned.args[1]
            group  == CHOOSE g \in groups : person \in g
            held   == {PyIndex(loyalties, q) : q \in group}
        IN  /\ returned.raised = NoError
            /\ returned.value = <<CHOOSE m \in held : \A x \in held : x <= m>>

\* the query of a person who holds -1 returned the 1 that exactly one other
\* member of the person's group of at least three people holds
C18_Witness ==
    /\ returned.op = "query_max_loyalty"
    /\ returned.raised = NoError
    /\ returned.value = <<1>>
    /\ LET person == returned.args[1]
           group  == CHOOSE g \in groups : person \in g
       IN  /\ PyIndex(loyalties, person) = -1
           /\ Cardinality(group) >= 3
           /\ Cardinality({q \in group : PyIndex(loyalties, q) = 1}) = 1
           /\ Cardinality({q \in People : PyIndex(loyalties, q) = 1}) >= 2

---------------------------------------------------------------------------
(* C19: a JEQ / JGT / JLT whose target operand is malformed or names an    *)
(* out-of-range register aborts the run with an error, also when the flag  *)
(* does not match and the jump is not taken.                               *)
C19_UntakenJumpChecksOperand ==
    [][(/\ Fetch
        /\ Opcode \in {OpJEQ, OpJGT, OpJLT}
        /\ Operands # <<>>
        /\ \/ ~WellFormed(Operands[1])
           \/ OutOfRangeOperand(Operands[1], registers))
       => status' = "error"]_vars

---------------------------------------------------------------------------
(* C20: the flag is 0 (Equal) before the first loop iteration of a run,    *)
(* and its value changes only in a step that executes CMP.                 *)
C20_FlagOnlyByCmp ==
    /\ [](steps_executed = 0 => cf = 0)
    /\ [][cf' # cf => (Fetch /\ Opcode = OpCMP)]_vars

\* a JEQ that was the first instruction executed was taken: pc is the -1 its
\* target register holds, not 1
C20_Witness ==
    /\ status = "running"
    /\ steps_executed = 1
    /\ Tokens[instructions[1]] = <<OpJEQ, <<"R", "1">> >>
    /\ cf = 0
    /\ registers[2] = -1
    /\ ip = -1

---------------------------------------------------------------------------
(* C21: a step that fetches an empty or whitespace-only instruction adds 1 *)
(* to the step counter, sets pc to pc + 1, changes neither the registers   *)
(* nor the flag and does not end the run; it is taken only while the step  *)
(* counter is below the budget, like any other step.                       *)
C21_BlankStep ==
    [][(/\ status = "running"
        /\ InRange
        /\ \A j \in 1..Len(PyIndex(instructions, ip)) :
              PyIndex(instructions, ip)[j] \in WS)
       => \/ /\ steps_executed < max_steps
             /\ steps_executed' = steps_executed + 1
             /\ ip' = ip + 1
             /\ registers' = registers
             /\ cf' = cf
             /\ status' = "running"
          \/ /\ steps_executed >= max_steps
             /\ status' = "done"
             /\ steps_executed' = steps_executed
             /\ ip' = ip]_vars

\* the program " ", "" with budget 2: both blank steps were counted and the
\* budget is used up
C21_Witness ==
    /\ status = "running"
    /\ instructions = << <<" ">>, <<>> >>
    /\ max_steps = 2
    /\ steps_executed = 2
    /\ ip = 2
    /\ cf = 0

---------------------------------------------------------------------------
(* C22: every loop iteration (HALT, blank, jump and failing ones included) *)
(* adds exactly 1 to the step counter and nothing else changes it, the     *)
(* counter never exceeds the step budget, and every run eventually ends:   *)
(* it returns or aborts with an error.                                     *)
C22_Terminates ==
    /\ [][IF status = "running" /\ InRange /\ steps_executed < max_steps
          THEN steps_executed' = steps_executed + 1
          ELSE steps_executed' = steps_executed]_vars
    /\ [](steps_executed <= max_steps)
    /\ <>(status \in {"done", "error"})

\* "JMP V0" alone, which jumps to itself, was stopped by a budget of 2
C22_Witness ==
    /\ status = "done"
    /\ Len(instructions) = 1
    /\ Tokens[instructions[1]] = <<OpJMP, <<"V", "0">> >>
    /\ max_steps = 2
    /\ steps_executed = 2
    /\ ip = 0

---------------------------------------------------------------------------
(* C23: a step that aborts the run with an error leaves the registers, the *)
(* flag and the program counter exactly as they were before the            *)
(* instruction started, and after the error nothing changes any more.      *)
C23_NoPartialEffect ==
    /\ [][status' = "error" =>
            /\ status = "running"
            /\ registers' = registers
            /\ cf' = cf
            /\ ip' = ip]_vars
    /\ [][status # "error"]_vars

\* the second instruction of a run failed in _set_value on a pointer
\* destination whose address is out of range: pc still names it
C23_Witness ==
    /\ status = "error"
    /\ err = "RegisterOutOfRange"
    /\ calls # <<>>
    /\ calls[Len(calls)].fn = "set"
    /\ calls[Len(calls)].err = "RegisterOutOfRange"
    /\ calls[Len(calls)].operand[1] = "P"
    /\ steps_executed = 2
    /\ ip = 1

---------------------------------------------------------------------------
\* the people who are their own parent
Roots == {i \in People : PyIndex(parent, i) = i}

\* the root the parent pointers lead to from person i, nothing compressed
RECURSIVE RootOf(_)
RootOf(i) == IF PyIndex(parent, i) = i THEN i ELSE RootOf(PyIndex(parent, i))

(* C24: after construction and after every call, the keys of               *)
(* _scores_in_component are exactly the roots, each friend group has one   *)
(* root, to which the parent pointers lead from each of its members, and   *)
(* that root's list is non-empty, sorted ascending and holds each score as *)
(* often as members of the group currently have it.                        *)
C24_ScoreLists ==
    /\ DOMAIN scores_in_component = Roots
    /\ \A g \in groups :
         \E r \in Roots :
            LET lst == scores_in_component[r]
            IN  /\ r \in g
                /\ \A q \in g : RootOf(q) = r
                /\ lst # <<>>
                /\ Len(lst) = Cardinality(g)
                /\ \A k \in 1..(Len(lst) - 1) : lst[k] <= lst[k + 1]
                /\ \A v \in Scores :
                     Cardinality({k \in 1..Len(lst) : lst[k] = v})
                     = Cardinality({q \in g : PyIndex(loyalties, q) = v})

\* all four people are one group, one of them two parent pointers away from
\* the root, and the root's list holds both scores twice
C24_Witness ==
    /\ groups = {People}
    /\ \E q \in People :
          PyIndex(parent, PyIndex(parent, q)) # PyIndex(parent, q)
    /\ \E r \in Roots : scores_in_component[r] = <<-1, -1, 1, 1>>

============================================================================
